---- MODULE Spec2Model ----
\* A model of alphaclean's scoring algebra (constraints.py) and of its
\* search/orchestration routines (search.py).
\*
\* Scores are exact rationals [n, d] (numpy floats in the source; rounding
\* is not modelled).  Cell values are Python strings, kept as sequences of
\* one-character strings, or None.
EXTENDS Integers, Sequences, FiniteSets, TLC

VARIABLES
    \* --- constraint algebra (constraints.py) ---
    tbl,            \* the table a constraint is evaluated on
    cst,            \* the constraint object built so far
    lastOp,         \* the last `+` / `*` expression evaluated and its outcome
    res,            \* the last result of cst.qfn(tbl)
    \* --- treeSearch (search.py:127-190) ---
    pc,             \* position inside treeSearch
    args,           \* the arguments: df, costFn, operations, evaluations,
                    \*   inflation, editCost, similarity, word2vec
    efn,            \* the CellEdit whose qfn is efn
    best,           \* (value, op, frame)
    branch_hash,    \* the visited set
    bad_op_cache,   \* names of operations that raised
    i,              \* loop variable of `for i in range(evaluations)`
    round,          \* (value, op, frame) unpacked at the top of the round
    todo,           \* candidates of p.getAllOperations() not yet enumerated
    hist,           \* history of the call (observations only)
    \* --- solve (search.py:19-121) ---
    spc,            \* position inside solve
    sargs,          \* the arguments: patterns, dependencies, partitionOn
    sdf,            \* solve's df (written in place when partitioning)
    sdf0,           \* the table as it was when solve was called
    config,         \* the configuration
    loaded,         \* the models loadWord2Vec has returned, in order
    blocks,         \* partition values not yet processed
    block,          \* the block being processed: b, dfc, op1, op2
    rules,          \* rules of the current patternConstraints /
                    \*   dependencyConstraints call still to run
    sop,            \* solve's op
    shist           \* history of the solve run (observations only)

evalVars   == <<tbl, cst, lastOp, res>>
searchVars == <<pc, args, efn, best, branch_hash, bad_op_cache, i, round, todo, hist>>
solveVars  == <<spc, sargs, sdf, sdf0, config, loaded, blocks, block, rules, sop, shist>>
vars       == <<evalVars, searchVars, solveVars>>

-----------------------------------------------------------------------------
\* Exact rational arithmetic.

RECURSIVE GCD(_, _)
GCD(a, b) == IF b = 0 THEN a ELSE GCD(b, a % b)

Abs(x) == IF x < 0 THEN -x ELSE x

Rat(n, d) ==
    LET g == GCD(Abs(n), Abs(d))
        s == IF d < 0 THEN -1 ELSE 1
    IN  [n |-> (s * n) \div g, d |-> (s * d) \div g]

RInt(k)       == [n |-> k, d |-> 1]
RAdd(a, b)    == Rat(a.n * b.d + b.n * a.d, a.d * b.d)
RSub(a, b)    == Rat(a.n * b.d - b.n * a.d, a.d * b.d)
RMul(a, b)    == Rat(a.n * b.n, a.d * b.d)
RDivInt(a, k) == Rat(a.n, a.d * k)
RLess(a, b)   == a.n * b.d < b.n * a.d
RLeq(a, b)    == a.n * b.d <= b.n * a.d
RMax(a, b)    == IF RLess(a, b) THEN b ELSE a

Zero == RInt(0)
One  == RInt(1)

\* np.zeros((N,)), np.ones((N,)), np.sum
Zeros(N) == [k \in 1..N |-> Zero]
Ones(N)  == [k \in 1..N |-> One]

RECURSIVE NpSum(_)
NpSum(v) == IF v = <<>> THEN Zero ELSE RAdd(Head(v), NpSum(Tail(v)))

-----------------------------------------------------------------------------
\* Python values and strings.

None   == [none |-> TRUE,  s |-> <<>>]
S(str) == [none |-> FALSE, s |-> str]
\* float('nan'), which pandas writes where an aligned assignment finds no value
NaN    == [none |-> FALSE, s |-> <<"n", "a", "n">>, nan |-> TRUE]
IsNaN(v) == "nan" \in DOMAIN v

\* str(x)
PyStr(v) == IF v.none THEN <<"N", "o", "n", "e">> ELSE v.s

\* str.lower(), on the alphabet used here
LowerChar(c) == IF c = "N" THEN "n" ELSE c
Lower(s)     == [k \in 1..Len(s) |-> LowerChar(s[k])]

\* str.split(): the whitespace-separated tokens; acc is the token being read
RECURSIVE SplitFrom(_, _)
SplitFrom(s, acc) ==
    IF s = <<>> THEN (IF acc = <<>> THEN {} ELSE {acc})
    ELSE IF Head(s) = " "
         THEN (IF acc = <<>> THEN {} ELSE {acc}) \cup SplitFrom(Tail(s), <<>>)
         ELSE SplitFrom(Tail(s), Append(acc, Head(s)))

Tokens(s) == SplitFrom(Lower(s), <<>>)

\* str.strip() leaves nothing
StripEmpty(s) == \A k \in 1..Len(s) : s[k] = " "

Min2(a, b) == IF a < b THEN a ELSE b
Max2(a, b) == IF a < b THEN b ELSE a

\* distance.levenshtein(a, b)
RECURSIVE Lev(_, _)
Lev(a, b) ==
    IF a = <<>> THEN Len(b)
    ELSE IF b = <<>> THEN Len(a)
    ELSE Min2(Min2(Lev(Tail(a), b) + 1, Lev(a, Tail(b)) + 1),
              Lev(Tail(a), Tail(b)) + (IF Head(a) = Head(b) THEN 0 ELSE 1))

\* distance.levenshtein(a, b, normalized=True): divided by the longer length
LevNormalized(a, b) ==
    IF Max2(Len(a), Len(b)) = 0 THEN Zero
    ELSE Rat(Lev(a, b), Max2(Len(a), Len(b)))

-----------------------------------------------------------------------------
\* Tables: named columns, positional rows, row labels.

\* idx holds the row labels (the pandas index); a table built from values
\* is labelled 1..N
Frame(cols, rows, idx) == [cols |-> cols, rows |-> rows, idx |-> idx]
Table(cols, rows) == Frame(cols, rows, [k \in 1..Len(rows) |-> k])
NRows(t) == Len(t.rows)                      \* t.shape[0]
NCols(t) == Len(t.cols)                      \* t.shape[1]
DfShape(t) == <<NRows(t), NCols(t)>>   \* t.shape

ColPos(t, c) == CHOOSE j \in 1..NCols(t) : t.cols[j] = c
HasCol(t, c) == \E j \in 1..NCols(t) : t.cols[j] = c
HasCols(t, cs) == \A k \in 1..Len(cs) : HasCol(t, cs[k])

\* t[c].iloc[r]
Cell(t, r, c) == t.rows[r][ColPos(t, c)]
\* tuple(t[cs].iloc[r, :])
RowTuple(t, r, cs) == [k \in 1..Len(cs) |-> Cell(t, r, cs[k])]

Range(f) == {f[x] : x \in DOMAIN f}

-----------------------------------------------------------------------------
\* Constraint objects (constraints.py).  A pattern (strptime format or regular
\* expression) is kept as the set of strings it accepts.

\* Constraint()
Constraint == [k |-> "Constraint"]
FD(source, target) == [k |-> "FD", source |-> source, target |-> target]
Predicate(attr, expr) == [k |-> "Predicate", attr |-> attr, expr |-> expr]
DictValue(attr, codebook) ==
    [k |-> "DictValue", attr |-> attr, codebook |-> codebook,
     expr |-> [f |-> "in", codebook |-> codebook]]
Date(attr, pattern) ==
    [k |-> "Date", attr |-> attr, pattern |-> pattern,
     expr |-> [f |-> "strptime", pattern |-> pattern]]
Pattern(attr, pattern) ==
    [k |-> "Pattern", attr |-> attr, pattern |-> pattern,
     expr |-> [f |-> "match", pattern |-> pattern]]
Shape(rows, columns) == [k |-> "Shape", rows |-> rows, columns |-> columns]

\* CellEdit.__init__: every column of source defaults to 'edit', then the
\* entries of the metric argument are written over it
CellEditMetric(source, metric) ==
    [c \in Range(source.cols) \cup DOMAIN metric |->
        IF c \in DOMAIN metric THEN metric[c] ELSE "edit"]
\* the embedding model loaded when constraints.py is imported
GLOBAL_WORDS == "GLOBAL_WORDS"

CellEdit(source, metric) ==
    [k |-> "CellEdit", source |-> source,
     metric |-> CellEditMetric(source, metric), word_vectors |-> GLOBAL_WORDS]

\* a numeric weight, as the right operand of `*`
Scalar(x) == [k |-> "float", x |-> x]

PredicateKinds == {"Predicate", "DictValue", "Date", "Pattern"}
Composite      == {"Add", "Mul"}

\* which instance attributes the constructors set: FD sets only hint, Shape
\* and CellEdit set neither; Predicate and its subclasses call
\* Constraint.__init__, and so do the composites
HasHint(c)       == c.k \in {"Constraint", "FD"} \cup PredicateKinds \cup Composite
HasHintParams(c) == c.k \in {"Constraint"} \cup PredicateKinds \cup Composite

RECURSIVE Hint(_)
Hint(c) ==
    CASE c.k = "Constraint"     -> {}
      [] c.k = "FD"             -> Range(c.source) \cup Range(c.target)
      [] c.k \in PredicateKinds -> {c.attr}
      [] c.k \in Composite      -> Hint(c.a) \cup Hint(c.b)

\* dict.copy() then dict.update(): the right operand's entries win
DictUpdate(f, g) ==
    [x \in DOMAIN f \cup DOMAIN g |-> IF x \in DOMAIN g THEN g[x] ELSE f[x]]

RECURSIVE HintParams(_)
HintParams(c) ==
    CASE c.k = "DictValue"  -> [codebook |-> c.codebook]
      [] c.k \in Composite  -> DictUpdate(HintParams(c.a), HintParams(c.b))
      [] OTHER              -> <<>>

\* outcome of a call: a value, or an exception
Ok(v) == [ok |-> TRUE, v |-> v]
Raise == [ok |-> FALSE, v |-> <<>>]

\* self.expr(val) of a Predicate, val not None
\* (x.strip() and len(x) raise for a float)
ExprApply(e, val) ==
    CASE e.f = "in"       -> Ok(~IsNaN(val) /\ val.s \in e.codebook)
      [] e.f = "strptime" -> IF IsNaN(val) THEN Raise
                             ELSE Ok(~val.none /\ ~StripEmpty(val.s) /\ val.s \in e.pattern)
      [] e.f = "match"    -> IF IsNaN(val) THEN Raise
                             ELSE Ok(~val.none /\ Len(val.s) # 0 /\ val.s \in e.pattern)
      [] e.f = "raises"   -> Raise

-----------------------------------------------------------------------------
\* The quality functions.

\* FD._qfn: kv[s] is the set of target tuples seen with source tuple s
FDkv(c, t, s) ==
    {RowTuple(t, r, c.target) : r \in {q \in 1..NRows(t) : RowTuple(t, q, c.source) = s}}

SetMax(xs) == CHOOSE x \in xs : \A y \in xs : y <= x

FDQfn(c, t) ==
    LET N == NRows(t) IN
    IF N = 0 THEN Ok(Zeros(0))
    ELSE IF ~HasCols(t, c.source) \/ ~HasCols(t, c.target) THEN Raise   \* KeyError
    ELSE LET size(r) == Cardinality(FDkv(c, t, RowTuple(t, r, c.source)))
             normalization == SetMax({size(r) : r \in 1..N} \cup {0})
         IN  Ok([r \in 1..N |-> Rat(size(r) - 1, normalization)])

\* the score Predicate._qfn gives one value
PredicateNullScore == Rat(1, 100)

PredicateQfn(c, t) ==
    LET N == NRows(t)
        test(r) == ExprApply(c.expr, Cell(t, r, c.attr))
    IN
    IF N = 0 THEN Ok(Zeros(0))
    ELSE IF ~HasCol(t, c.attr) THEN Raise                               \* KeyError
    ELSE IF \E r \in 1..N : ~Cell(t, r, c.attr).none /\ ~test(r).ok THEN Raise
    ELSE Ok([r \in 1..N |->
                IF Cell(t, r, c.attr).none THEN PredicateNullScore
                ELSE IF test(r).v THEN Zero ELSE One])

ShapeQfn(c, t) ==
    IF NRows(t) # c.rows \/ NCols(t) # c.columns
    THEN Ok(Ones(NRows(t)))
    ELSE Ok(Zeros(NRows(t)))

\* the embedding provider's vocabulary and cosine similarity (a KeyError for a
\* token outside the vocabulary, an AttributeError when no model is loaded)
Vocabulary == {<<"a">>, <<"b">>}
WordSimilarity(word_vectors, a, b) ==
    IF word_vectors = "None" \/ a \notin Vocabulary \/ b \notin Vocabulary THEN Raise
    ELSE Ok(IF a = b THEN One ELSE Zero)

\* lines 232-236: (similarity + 1)/2, 0 when the lookup raises
PairSimilarity(word_vectors, a, b) ==
    LET r == WordSimilarity(word_vectors, a, b)
    IN  IF r.ok THEN RDivInt(RAdd(r.v, One), 2) ELSE Zero

RECURSIVE SumOver(_, _)
SumOver(xs, f) ==
    IF xs = {} THEN Zero
    ELSE LET x == CHOOSE y \in xs : TRUE
         IN  RAdd(f[x], SumOver(xs \ {x}, f))

\* what cell (i, j) adds to qfn_a[i] in CellEdit._qfn, lines 196-245
CellTerm(c, v, w, cname, p) ==
    LET target  == PyStr(v)
        ref     == PyStr(w)
        ttokens == Tokens(target)
        rtokens == Tokens(ref)
        m       == c.metric[cname]
        pairs   == ttokens \X rtokens
        sims    == [pr \in pairs |-> PairSimilarity(c.word_vectors, pr[1], pr[2])]
    IN
    IF target = ref THEN Ok(Zero)
    ELSE IF v.none THEN Ok(Zero)
    ELSE IF target = <<>> /\ ref # target THEN Ok(Rat(1, p))
    ELSE IF ref = <<>> /\ ref # target THEN Ok(Rat(1, p))
    ELSE IF m = "edit" THEN Ok(RDivInt(LevNormalized(target, ref), p))
    ELSE IF m = "jaccard" THEN
        IF ttokens \cup rtokens = {} THEN Raise                 \* ZeroDivisionError
        ELSE Ok(RDivInt(RSub(One, Rat(Cardinality(ttokens \cap rtokens),
                                      Cardinality(ttokens \cup rtokens))), p))
    ELSE IF m = "semantic" THEN
        IF pairs # {}
        THEN Ok(RDivInt(RSub(One, RDivInt(SumOver(pairs, sims), Cardinality(pairs))), p))
        ELSE Ok(Rat(1, p))
    ELSE Ok(Zero)

CellEditQfn(c, t) ==
    LET N == NRows(t)
        p == NCols(t)
        term(r, j) == CellTerm(c, t.rows[r][j], c.source.rows[r][j], c.source.cols[j], p)
    IN
    IF DfShape(c.source) # DfShape(t) THEN Ok(Ones(N))
    ELSE IF \E r \in 1..N, j \in 1..p : ~term(r, j).ok THEN Raise
    ELSE Ok([r \in 1..N |-> NpSum([j \in 1..p |-> term(r, j).v])])

\* self._qfn(df), by class
RawQfn(c, t) ==
    CASE c.k = "Constraint"     -> Raise      \* raise NotImplemented(...)
      [] c.k = "FD"             -> FDQfn(c, t)
      [] c.k \in PredicateKinds -> PredicateQfn(c, t)
      [] c.k = "Shape"          -> ShapeQfn(c, t)
      [] c.k = "CellEdit"       -> CellEditQfn(c, t)

\* a faulty QfnWrap, for comparison: the except clause is missing
QfnWrapNoExcept(r, N) == r

\* Constraint.qfn: the try/except around _qfn
QfnWrap(r, N) == IF r.ok THEN Ok(r.v) ELSE Ok(Ones(N))

\* c.qfn(df): Constraint.qfn for the classes, the lambdas of __add__ and
\* __mul__ for the composites (which catch nothing themselves)
RECURSIVE Qfn(_, _)
Qfn(c, t) ==
    CASE c.k = "Add" ->
            LET x == Qfn(c.a, t)  y == Qfn(c.b, t)
            IN  IF ~x.ok \/ ~y.ok \/ Len(x.v) # Len(y.v) THEN Raise
                ELSE Ok([r \in 1..Len(x.v) |-> RDivInt(RAdd(x.v[r], y.v[r]), 2)])
      [] c.k = "Mul" ->
            LET x == Qfn(c.a, t)  y == Qfn(c.b, t)
            IN  IF ~x.ok \/ ~y.ok \/ Len(x.v) # Len(y.v) THEN Raise
                ELSE Ok([r \in 1..Len(x.v) |-> RMax(x.v[r], y.v[r])])
      [] OTHER -> QfnWrap(RawQfn(c, t), NRows(t))

\* a + b
PyAdd(a, b) ==
    IF HasHint(a) /\ HasHint(b) /\ HasHintParams(a) /\ HasHintParams(b)
    THEN Ok([k |-> "Add", a |-> a, b |-> b])
    ELSE Raise                                                  \* AttributeError

\* a * b: float(other) raises for a constraint and the except branch builds
\* the maximum; for a number float(other) succeeds, other.hint raises inside
\* the try, and the except branch reads other.hint again
PyMul(a, b) ==
    IF b.k = "float" THEN Raise
    ELSE IF HasHint(a) /\ HasHint(b) /\ HasHintParams(a) /\ HasHintParams(b)
         THEN Ok([k |-> "Mul", a |-> a, b |-> b])
         ELSE Raise                                             \* AttributeError

\* OneToOne(source, target)
OneToOne(source, target) == PyMul(FD(source, target), FD(target, source))

-----------------------------------------------------------------------------
\* Building and evaluating constraints: the inputs.

MaxRows  == 2      \* rows of an evaluated table
MaxDepth == 1      \* nesting of `+` / `*` in a built constraint

sa  == <<"a">>
sb  == <<"b">>
sab == <<"a", "b">>

EvalRows ==
    { <<S(sa), S(sb)>>, <<S(sa), S(sab)>>, <<None, S(sb)>>,
      <<S(<<>>), S(<<"a", " ", "b">>)>>, <<S(<<" ">>), S(sb)>> }

RECURSIVE SeqsUpTo(_, _)
SeqsUpTo(X, n) ==
    IF n = 0 THEN {<<>>}
    ELSE LET shorter == SeqsUpTo(X, n - 1)
         IN  shorter \cup {Append(q, x) : q \in {y \in shorter : Len(y) = n - 1}, x \in X}

EvalTables ==
    {Table(<<"A", "B">>, rows) : rows \in SeqsUpTo(EvalRows, MaxRows)}
      \cup {Table(<<"A">>, rows) : rows \in SeqsUpTo({<<S(sa)>>, <<None>>}, MaxRows)}

\* the reference table of the CellEdit constraints
EvalSource ==
    Table(<<"A", "B">>, << <<S(sa), S(<<"b", " ", "a">>)>>, <<S(<<" ", " ">>), S(sb)>> >>)

Leaves ==
    { Constraint,
      FD(<<"A">>, <<"B">>), FD(<<"B">>, <<"A">>),
      Predicate("B", [f |-> "raises"]),
      DictValue("A", {sa}),
      Date("B", {sb}),
      Pattern("A", {sa, <<" ">>}),
      Shape(2, 2),
      CellEdit(EvalSource, <<>>),
      CellEdit(EvalSource, [A |-> "jaccard", B |-> "semantic"]) }

Operands == Leaves \cup {Scalar(2)}

RECURSIVE Depth(_)
Depth(c) == IF c.k \in Composite THEN 1 + Max2(Depth(c.a), Depth(c.b)) ELSE 0

Unset == [set |-> FALSE]

EvalInit ==
    /\ tbl \in EvalTables
    /\ cst \in Leaves
    /\ lastOp = [op |-> "new"]
    /\ res = Unset

\* cst = cst + b
DoAdd(b) ==
    LET r == PyAdd(cst, b) IN
    /\ Depth(cst) < MaxDepth
    /\ lastOp' = [op |-> "+", a |-> cst, b |-> b, ok |-> r.ok]
    /\ cst' = IF r.ok THEN r.v ELSE cst
    /\ res' = Unset
    /\ UNCHANGED <<tbl, searchVars, solveVars>>

\* cst = cst * b
DoMul(b) ==
    LET r == PyMul(cst, b) IN
    /\ Depth(cst) < MaxDepth
    /\ lastOp' = [op |-> "*", a |-> cst, b |-> b, ok |-> r.ok]
    /\ cst' = IF r.ok THEN r.v ELSE cst
    /\ res' = Unset
    /\ UNCHANGED <<tbl, searchVars, solveVars>>

\* cst = OneToOne(source, target)
DoOneToOne(source, target) ==
    LET r == OneToOne(source, target) IN
    /\ lastOp.op = "new"
    /\ lastOp' = [op |-> "*", a |-> FD(source, target), b |-> FD(target, source),
                  ok |-> r.ok]
    /\ cst' = IF r.ok THEN r.v ELSE cst
    /\ res' = Unset
    /\ UNCHANGED <<tbl, searchVars, solveVars>>

\* cst.qfn(tbl)
Evaluate ==
    LET r == Qfn(cst, tbl) IN
    /\ res = Unset
    /\ res' = [set |-> TRUE, ok |-> r.ok, v |-> r.v]
    /\ UNCHANGED <<tbl, cst, lastOp, searchVars, solveVars>>

EvalNext ==
    \/ \E b \in Operands : DoAdd(b)
    \/ \E b \in Operands : DoMul(b)
    \/ \E x \in {<<"A">>, <<"B">>}, y \in {<<"A">>, <<"B">>} : DoOneToOne(x, y)
    \/ Evaluate

-----------------------------------------------------------------------------
\* Operations and the operator sampler (module generators, imported by
\* search.py).  An operation has a name, a depth and a run function that may
\* raise; a composed operation is the sequence of the operations it applies,
\* left to right, and NOOP is the empty sequence.

NOOP == <<>>

Op(name, kind, col, x, y) ==
    [name |-> name, kind |-> kind, col |-> col, x |-> x, y |-> y]

OpList ==
    << Op("swap(A,a,b)",  "Swap",    "A", S(sa),  S(sb)),
       Op("swap(A,ab,b)", "Swap",    "A", S(sab), S(sb)),
       Op("swap(B,ab,b)", "Swap",    "B", S(sab), S(sb)),
       Op("delete(A,a)",  "Delete",  "A", S(sa),  None),
       Op("delete(A,ab)", "Delete",  "A", S(sab), None),
       Op("filter(A,a)",  "Filter",  "A", S(sa),  None),
       Op("drop(A)",      "Project", "A", None,   None),
       Op("cast(A)",      "Cast",    "A", None,   S(sa)),
       Op("cast(A)",      "Cast",    "A", S(sab), S(sab)) >>

\* a * b on operations, and the depth of a composition
Compose(op, opbranch) == Append(op, opbranch)
OpDepth(op) == Len(op)

MapCol(t, col, f(_)) ==
    Frame(t.cols,
          [r \in 1..NRows(t) |->
              [j \in 1..NCols(t) |->
                  IF t.cols[j] = col THEN f(t.rows[r][j]) ELSE t.rows[r][j]]],
          t.idx)

\* the members of a set of integers, ascending
RECURSIVE Sorted(_)
Sorted(xs) ==
    IF xs = {} THEN <<>>
    ELSE LET m == CHOOSE x \in xs : \A y \in xs : x <= y
         IN  <<m>> \o Sorted(xs \ {m})

\* t.iloc[positions]: the rows at the given positions, with their labels
TakeRows(t, positions) ==
    LET q == Sorted(positions)
    IN  Frame(t.cols, [k \in 1..Len(q) |-> t.rows[q[k]]], [k \in 1..Len(q) |-> t.idx[q[k]]])

RECURSIVE SelectSeq2(_, _)
SelectSeq2(q, keep) ==
    IF q = <<>> THEN <<>>
    ELSE IF Head(q) \in keep THEN <<Head(q)>> \o SelectSeq2(Tail(q), keep)
         ELSE SelectSeq2(Tail(q), keep)

\* opbranch.run(frame): a new table (the input is not modified), or an error
RunOp(o, t) ==
    IF ~HasCol(t, o.col) THEN Raise
    ELSE LET j == ColPos(t, o.col)
             colvals == {t.rows[r][j] : r \in 1..NRows(t)}
         IN
         CASE o.kind = "Swap" ->
                Ok(MapCol(t, o.col, LAMBDA v : IF v = o.x THEN o.y ELSE v))
           [] o.kind = "Delete" ->
                Ok(MapCol(t, o.col, LAMBDA v : IF v = o.x THEN None ELSE v))
           [] o.kind = "Filter" ->
                Ok(TakeRows(t, {r \in 1..NRows(t) : t.rows[r][j] # o.x}))
           [] o.kind = "Project" ->
                Ok(Frame(SelectSeq2(t.cols, Range(t.cols) \ {o.col}),
                         [r \in 1..NRows(t) |->
                            [k \in 1..(NCols(t) - 1) |->
                                t.rows[r][IF k < j THEN k ELSE k + 1]]],
                         t.idx))
           [] o.kind = "Cast" ->
                IF o.x \in colvals THEN Raise
                ELSE Ok(MapCol(t, o.col, LAMBDA v : IF v = S(sab) THEN o.y ELSE v))

\* running a composed operation
RECURSIVE RunChain(_, _)
RunChain(op, t) ==
    IF op = <<>> THEN Ok(t)
    ELSE LET r == RunOp(Head(op), t)
         IN  IF r.ok THEN RunChain(Tail(op), r.v) ELSE Raise

Reverse(q) == [k \in 1..Len(q) |-> q[Len(q) + 1 - k]]

\* ParameterSampler(frame, costFn, operations).getAllOperations(): the
\* operations of the allowed kinds on the columns of costFn.hint, in one of
\* the orders the sampler may enumerate them in
Sampled(frame, c, kinds) ==
    LET q == SelectSeq2(OpList, {o \in Range(OpList) : o.kind \in kinds /\ o.col \in Hint(c)})
    IN  {q, Reverse(q)}

-----------------------------------------------------------------------------
\* treeSearch (search.py:127-190).

\* the score best starts with
SentinelScore == 2

\* a faulty pruningRules, for comparison: the test of the column count is missing
pruningRulesRowsOnly(output) == NRows(output) = 0

\* pruningRules(output)
pruningRules(output) ==
    IF NCols(output) = 0 THEN TRUE
    ELSE IF NRows(output) = 0 THEN TRUE
    ELSE FALSE

\* hash(str(df.values)): the values without the column names
BranchValue(t) == <<"hash", t.rows>>

\* line 185: n, or the error of costFn.qfn / efn; a float division by zero
\* rows gives nan, which compares False with everything
Score(c, e, w, output) ==
    LET costEval == Qfn(c, output)
        edit     == Qfn(e, output)
    IN  IF ~costEval.ok \/ ~edit.ok THEN Raise
        ELSE IF NRows(output) = 0 THEN Ok([nan |-> TRUE])
        ELSE Ok(RDivInt(RAdd(NpSum(costEval.v), RMul(RInt(w), NpSum(edit.v))),
                        NRows(output)))

\* a faulty Improves, for comparison: n <= best[0]
ImprovesOrEqual(n, value) == "nan" \notin DOMAIN n /\ RLeq(n, value)

\* n < best[0]
Improves(n, value) == "nan" \notin DOMAIN n /\ RLess(n, value)

\* a faulty PruneRound, for comparison: the comparison is reversed
PruneRoundReversed(value, op, bestValue, infl) ==
    RLess(RSub(value, RInt(OpDepth(op))), RMul(bestValue, RInt(infl)))

\* line 152: (value - op.depth) > best[0]*inflation
PruneRound(value, op, bestValue, infl) ==
    RLess(RMul(bestValue, RInt(infl)), RSub(value, RInt(OpDepth(op))))

\* a faulty NextOp, for comparison: the operations applied so far are dropped
NextOpBranchOnly(op, opbranch) == Compose(NOOP, opbranch)

\* the op * opbranch of line 168
NextOp(op, opbranch) == Compose(op, opbranch)

Best(value, op, frame) == [value |-> value, op |-> op, frame |-> frame]

\* a faulty InBadOpCache, for comparison: the cache is not consulted
InBadOpCacheNever(name, cache) == FALSE

\* line 165: opbranch.name in bad_op_cache
InBadOpCache(name, cache) == name \in cache

\* what has been observed of the call so far
NoHist ==
    [ last          |-> [outcome |-> "none"],   \* the last step taken
      skipped       |-> FALSE,   \* a round was skipped by the test of line 152
      scored        |-> FALSE,   \* a candidate reached line 185
      pruned        |-> FALSE,   \* a candidate was rejected by pruningRules
      below         |-> FALSE,   \* a candidate scored below the input table's score
      belowSentinel |-> FALSE,   \* a candidate scored below SentinelScore
      accRound      |-> 0 ]      \* replacements of best in the current round

\* CellEdit(source, metric, w2vModel): the three-argument constructor that
\* search.py:137 calls
CellEditW2V(source, metric, w2vModel) ==
    [CellEdit(source, metric) EXCEPT !.word_vectors = w2vModel]

\* line 137, against CellEdit as constraints.py:168 defines it (two
\* parameters): the call with three arguments raises TypeError
EnterRaises ==
    /\ pc = "call"
    /\ pc' = "raised"
    /\ UNCHANGED <<args, efn, best, branch_hash, bad_op_cache, i, round, todo, hist,
                   evalVars, solveVars>>

\* lines 137-145, against a CellEdit that takes the model as third argument
Enter ==
    /\ pc = "call"
    /\ pc' = "loop"
    /\ efn' = CellEditW2V(args.df, args.similarity, args.word2vec)
    /\ best' = Best(RInt(SentinelScore), NOOP, args.df)
    /\ branch_hash' = {BranchValue(args.df)}
    /\ bad_op_cache' = {}
    /\ i' = 0
    /\ hist' = NoHist
    /\ UNCHANGED <<args, round, todo, evalVars, solveVars>>

\* lines 149-153: the round is skipped (continue)
RoundSkipped ==
    /\ pc = "loop"
    /\ i < args.evaluations
    /\ PruneRound(best.value, best.op, best.value, args.inflation)
    /\ i' = i + 1
    /\ hist' = [hist EXCEPT !.skipped = TRUE, !.last = [outcome |-> "round skipped"]]
    /\ UNCHANGED <<pc, args, efn, best, branch_hash, bad_op_cache, round, todo,
                   evalVars, solveVars>>

\* lines 149-160: value, op, frame = best; the candidates are sampled
RoundStart ==
    /\ pc = "loop"
    /\ i < args.evaluations
    /\ ~PruneRound(best.value, best.op, best.value, args.inflation)
    /\ round' = best
    /\ todo' \in Sampled(best.frame, args.costFn, args.operations)
    /\ pc' = "cand"
    /\ hist' = [hist EXCEPT !.last = [outcome |-> "round started"], !.accRound = 0]
    /\ UNCHANGED <<args, efn, best, branch_hash, bad_op_cache, i, evalVars, solveVars>>

opbranch == Head(todo)

\* lines 165-166: the name is in the cache
CandBadOp ==
    /\ pc = "cand" /\ todo # <<>>
    /\ InBadOpCache(opbranch.name, bad_op_cache)
    /\ todo' = Tail(todo)
    /\ hist' = [hist EXCEPT !.last = [outcome |-> "skipped", op |-> opbranch]]
    /\ UNCHANGED <<pc, args, efn, best, branch_hash, bad_op_cache, i, round,
                   evalVars, solveVars>>

\* lines 172-176: opbranch.run(frame) raises
CandRaises ==
    /\ pc = "cand" /\ todo # <<>>
    /\ ~InBadOpCache(opbranch.name, bad_op_cache)
    /\ ~RunOp(opbranch, round.frame).ok
    /\ bad_op_cache' = bad_op_cache \cup {opbranch.name}
    /\ todo' = Tail(todo)
    /\ hist' = [hist EXCEPT !.last = [outcome |-> "raised", op |-> opbranch]]
    /\ UNCHANGED <<pc, args, efn, best, branch_hash, i, round, evalVars, solveVars>>

\* lines 180-181: the output is structurally invalid
CandPruned ==
    /\ pc = "cand" /\ todo # <<>>
    /\ ~InBadOpCache(opbranch.name, bad_op_cache)
    /\ RunOp(opbranch, round.frame).ok
    /\ pruningRules(RunOp(opbranch, round.frame).v)
    /\ todo' = Tail(todo)
    /\ hist' = [hist EXCEPT !.pruned = TRUE,
                             !.last = [outcome |-> "pruned", op |-> opbranch,
                                       output |-> RunOp(opbranch, round.frame).v]]
    /\ UNCHANGED <<pc, args, efn, best, branch_hash, bad_op_cache, i, round,
                   evalVars, solveVars>>

\* lines 184-188: the output is scored and becomes best when n < best[0]
CandScored ==
    /\ pc = "cand" /\ todo # <<>>
    /\ ~InBadOpCache(opbranch.name, bad_op_cache)
    /\ RunOp(opbranch, round.frame).ok
    /\ ~pruningRules(RunOp(opbranch, round.frame).v)
    /\ LET output == RunOp(opbranch, round.frame).v
           nextop == NextOp(round.op, opbranch)
           n      == Score(args.costFn, efn, args.editCost, output)
           input  == Score(args.costFn, efn, args.editCost, args.df)
       IN  IF ~n.ok
           THEN /\ pc' = "raised"
                /\ UNCHANGED <<best, todo, hist>>
           ELSE /\ pc' = pc
                /\ todo' = Tail(todo)
                /\ best' = IF Improves(n.v, best.value)
                           THEN Best(n.v, nextop, output) ELSE best
                /\ hist' = [hist EXCEPT
                     !.last = [outcome |-> IF Improves(n.v, best.value)
                                           THEN "accepted" ELSE "rejected",
                               op |-> opbranch, output |-> output, n |-> n.v],
                     !.scored = TRUE,
                     !.below = @ \/ (input.ok /\ RLess(n.v, input.v)),
                     !.belowSentinel = @ \/ RLess(n.v, RInt(SentinelScore)),
                     !.accRound = IF Improves(n.v, best.value) THEN @ + 1 ELSE @]
    /\ UNCHANGED <<args, efn, branch_hash, bad_op_cache, i, round, evalVars, solveVars>>

\* the candidates of the round are exhausted
RoundEnd ==
    /\ pc = "cand" /\ todo = <<>>
    /\ pc' = "loop"
    /\ i' = i + 1
    /\ hist' = [hist EXCEPT !.last = [outcome |-> "round ended"]]
    /\ UNCHANGED <<args, efn, best, branch_hash, bad_op_cache, round, todo,
                   evalVars, solveVars>>

\* line 190: return best[1], best[2]
Return ==
    /\ pc = "loop"
    /\ i = args.evaluations
    /\ pc' = "done"
    /\ hist' = [hist EXCEPT !.last = [outcome |-> "returned"]]
    /\ UNCHANGED <<args, efn, best, branch_hash, bad_op_cache, i, round, todo,
                   evalVars, solveVars>>

TreeSearchStep ==
    \/ EnterRaises
    \/ Enter
    \/ RoundSkipped
    \/ RoundStart
    \/ CandBadOp
    \/ CandRaises
    \/ CandPruned
    \/ CandScored
    \/ RoundEnd
    \/ Return

-----------------------------------------------------------------------------
\* Values of the variables of a component that is not running.

Idle == [idle |-> TRUE]

EvalIdle   == tbl = Idle /\ cst = Idle /\ lastOp = Idle /\ res = Idle
SearchIdle ==
    /\ pc = "idle" /\ args = Idle /\ efn = Idle /\ best = Idle /\ branch_hash = Idle
    /\ bad_op_cache = Idle /\ i = 0 /\ round = Idle /\ todo = <<>> /\ hist = Idle
SolveIdle  ==
    /\ spc = "idle" /\ sargs = Idle /\ sdf = Idle /\ sdf0 = Idle /\ config = Idle
    /\ loaded = <<>> /\ blocks = {} /\ block = Idle /\ rules = <<>> /\ sop = Idle
    /\ shist = Idle

\* A constraint is built and evaluated.
InitEval == EvalInit /\ SearchIdle /\ SolveIdle
SpecEval == InitEval /\ [][EvalNext]_vars

\* C5: evaluating a constraint never raises and gives one score in [0,1] per
\* row of the table; when the class's own scoring logic (_qfn) raises, every
\* row scores 1.
C5_QfnTotalBounded ==
    res.set =>
        /\ res.ok
        /\ Len(res.v) = NRows(tbl)
        /\ \A r \in 1..Len(res.v) : RLeq(Zero, res.v[r]) /\ RLeq(res.v[r], One)
        /\ (cst.k \notin Composite /\ ~RawQfn(cst, tbl).ok) => res.v = Ones(NRows(tbl))

\* a CellEdit whose jaccard distance divides by zero, evaluated on two rows
C5_Witness ==
    /\ res.set
    /\ cst.k = "CellEdit"
    /\ NRows(tbl) = 2
    /\ ~RawQfn(cst, tbl).ok
    /\ res.v = Ones(2)

\* C6: for constraints a and b of any class, a * b can be built, scores every
\* row with the larger of the two scores and has the union of the two hints.
C6_MulIsMax ==
    (lastOp.op = "*" /\ lastOp.b.k # "float") =>
        /\ lastOp.ok
        /\ cst.k = "Mul"
        /\ Hint(cst) = Hint(lastOp.a) \cup Hint(lastOp.b)
        /\ res.set =>
            \A r \in 1..NRows(tbl) :
                res.v[r] = RMax(Qfn(lastOp.a, tbl).v[r], Qfn(lastOp.b, tbl).v[r])

-----------------------------------------------------------------------------
\* One call of treeSearch: the inputs.

MaxEvaluations == 2

SearchTables ==
    { Table(<<"A", "B">>, << <<S(sa), S(sb)>>, <<S(sa), S(sab)>> >>),
      Table(<<"A", "B">>, << <<S(sab), S(sb)>>, <<S(sa), S(sb)>> >>),
      Table(<<"A", "B">>, << <<None, S(sb)>>, <<S(sb), S(sab)>> >>),
      Table(<<"A">>, << <<S(sa)>>, <<S(sa)>> >>) }

SearchRules == { DictValue("A", {sb}), FD(<<"A">>, <<"B">>), Pattern("A", {sa}) }

AllKinds == {"Swap", "Delete", "Filter", "Project", "Cast"}
OperationSets == { {"Swap", "Delete"}, {"Filter", "Project"}, AllKinds }

SearchArgs ==
    [ df : SearchTables, costFn : SearchRules, operations : OperationSets,
      evaluations : 0..MaxEvaluations, inflation : {0, 1, 5},
      editCost : {-1, 0, 1, 2}, similarity : {<<>>}, word2vec : {"None"} ]

\* the state in which treeSearch is called with arguments a
Called(a) ==
    /\ pc = "call" /\ args = a
    /\ efn = Idle /\ best = Idle /\ branch_hash = Idle /\ bad_op_cache = Idle
    /\ i = 0 /\ round = Idle /\ todo = <<>> /\ hist = Idle

SearchInit == \E a \in SearchArgs : Called(a)

InitSearch == SearchInit /\ EvalIdle /\ SolveIdle
SpecSearch == InitSearch /\ [][TreeSearchStep]_vars

\* treeSearch holds its local variables
Running == pc \in {"loop", "cand", "done"}

\* a candidate has just been handled by the inner loop
CandStep == pc = "cand" /\ todo # <<>> /\ todo' = Tail(todo)

\* C1 as stated: if no candidate scores below the score of the input table,
\* the input table is returned and the returned operation leaves it as it is.
C1_NoGainOnInputReturnsInput ==
    (pc = "done" /\ ~hist.below) =>
        best.frame = args.df /\ RunChain(best.op, args.df) = Ok(args.df)

\* C1 amended: if no candidate scores below the sentinel 2.0 that best starts
\* with, the input table is returned with NOOP.
C1_NoGainOnSentinelReturnsInput ==
    (pc = "done" /\ ~hist.belowSentinel) =>
        best.frame = args.df /\ best.op = NOOP

\* a finished call in which candidates were scored, none below 2.0
C1_Witness ==
    pc = "done" /\ hist.scored /\ ~hist.belowSentinel /\ best.frame = args.df

\* C2: started on a table with a row and a column, best always holds a table
\* with at least one row and one column.
C2_BestStructurallyValid ==
    (Running /\ NRows(args.df) >= 1 /\ NCols(args.df) >= 1) =>
        NRows(best.frame) >= 1 /\ NCols(best.frame) >= 1

\* a finished call of at least one round in which every candidate enumerated
\* gave a table without rows or without columns
C2_Witness ==
    /\ pc = "done" /\ args.evaluations >= 1
    /\ hist.pruned /\ ~hist.scored /\ bad_op_cache = {}
    /\ NRows(best.frame) >= 1 /\ NCols(best.frame) >= 1

\* C3: the operation in best, run on the input table, gives the table in best.
C3_BestOpReproducesBestFrame ==
    Running => RunChain(best.op, args.df) = Ok(best.frame)

\* best replaced twice within a round that is not the first, by a chain of
\* more than one operation
C3_Witness ==
    Running /\ i >= 1 /\ hist.accRound >= 2 /\ Len(best.op) >= 2

\* C4: a name once in the bad-operation cache stays there; an operation whose
\* name is in the cache is not run; a run that raises puts the name in the
\* cache and leaves best as it was; the cache is empty when a call starts.
C4_BadOpCache ==
    [][ /\ (Running /\ Running') => bad_op_cache \subseteq bad_op_cache'
        /\ (CandStep /\ hist'.last.outcome # "skipped")
              => Head(todo).name \notin bad_op_cache
        /\ (CandStep /\ ~RunOp(Head(todo), round.frame).ok)
              => Head(todo).name \in bad_op_cache' /\ best' = best
        /\ (pc = "call" /\ pc' = "loop") => bad_op_cache' = {}
      ]_vars

\* in a later round, an operation is skipped for its cached name although it
\* would run on the current frame
C4_Witness ==
    /\ pc = "cand" /\ i >= 1
    /\ hist.last.outcome = "skipped"
    /\ RunOp(hist.last.op, round.frame).ok

\* C9 as stated: a candidate whose hash is in the visited set is neither
\* scored nor accepted, and every table accepted as best is in the visited set.
C9_VisitedNotReconsidered ==
    [][ /\ (CandStep /\ hist'.last.outcome \in {"accepted", "rejected"})
              => BranchValue(hist'.last.output) \notin branch_hash
        /\ (Running /\ Running' /\ best' # best)
              => BranchValue(best'.frame) \in branch_hash'
      ]_vars

\* C10: the score in best never increases; once a round is skipped best no
\* longer changes and no later round is entered; no round is skipped when the
\* score in best and the depth of its operation are not negative and
\* inflation is at least 1.
C10_PruneByInflation ==
    [][ (Running /\ Running') =>
          /\ RLeq(best'.value, best.value)
          /\ hist.skipped => (best' = best /\ pc' # "cand")
          /\ (hist'.last.outcome = "round skipped" /\ i' = i + 1) =>
                /\ best' = best
                /\ ~(RLeq(Zero, best.value) /\ OpDepth(best.op) >= 0 /\ args.inflation >= 1)
      ]_vars

\* a call that returned after skipping a round later than one that replaced best
C10_Witness ==
    pc = "done" /\ hist.skipped /\ best.op # NOOP

-----------------------------------------------------------------------------
\* solve, patternConstraints, dependencyConstraints (search.py:19-121).

\* needWord2Vec(config)
needWord2Vec(cfg) ==
    \/ "semantic" \in Range(cfg.pattern.similarity)
    \/ "semantic" \in Range(cfg.dependency.similarity)

\* loadWord2Vec(filename): every call reads the file into a new model; k is
\* the number of the call
ModelIds == <<"model#1", "model#2">>
loadWord2Vec(filename, k) == ModelIds[k]

\* lines 24-29: the models solve loads
LoadModels(cfg) ==
    IF needWord2Vec(cfg)
    THEN <<loadWord2Vec(cfg.pattern.w2v, 1), loadWord2Vec(cfg.pattern.w2v, 2)>>
    ELSE <<>>

\* set(df[partitionOn].dropna().values)
PartitionValues(t, p) ==
    {Cell(t, r, p) : r \in {q \in 1..NRows(t) : ~Cell(t, q, p).none /\ ~IsNaN(Cell(t, q, p))}}

\* df[partitionOn] == b, as the set of positions where it is True
BlockMask(t, p, b) == {r \in 1..NRows(t) : Cell(t, r, p) = b}

\* df.loc[mask] = output_block: the block is aligned on row labels and column
\* names; where it has no value the cell becomes NaN
AssignBlock(t, mask, out) ==
    LET pos(label) == CHOOSE k \in 1..NRows(out) : out.idx[k] = label
        has(label) == \E k \in 1..NRows(out) : out.idx[k] = label
        cell(r, j) ==
            IF has(t.idx[r]) /\ HasCol(out, t.cols[j])
            THEN Cell(out, pos(t.idx[r]), t.cols[j])
            ELSE NaN
    IN  Frame(t.cols,
              [r \in 1..NRows(t) |->
                  IF r \in mask THEN [j \in 1..NCols(t) |-> cell(r, j)] ELSE t.rows[r]],
              t.idx)

\* DatetimeCast / PatternCast (module generators): a value the pattern does
\* not accept becomes None
CastOp(c) ==
    Op("cast", IF c.k = "Date" THEN "DatetimeCast" ELSE "PatternCast", c.attr, c.pattern, None)
CastRun(c, t) ==
    MapCol(t, c.attr,
           LAMBDA v : IF v.none \/ IsNaN(v) \/ v.s \notin c.pattern THEN None ELSE v)

\* lines 83-96: the rules that are cast before they are searched
IsCast(c) == c.k \in {"Date", "Pattern"}

\* the local variables of treeSearch are gone
SearchGone ==
    /\ pc' = "idle" /\ args' = Idle /\ efn' = Idle /\ best' = Idle
    /\ branch_hash' = Idle /\ bad_op_cache' = Idle /\ i' = 0 /\ round' = Idle
    /\ todo' = <<>> /\ hist' = Idle

\* patternConstraints / dependencyConstraints is entered with table t
BlockOf(b, t) == [b |-> b, dfc |-> t, phase |-> "pattern", op |-> NOOP, op1 |-> NOOP]

\* lines 21-37: the models are loaded and stored in the configuration; with a
\* partition column the block values are collected, without one
\* patternConstraints is entered with the whole table (line 55)
SolveLoad ==
    /\ spc = "call"
    /\ LET models == LoadModels(config) IN
       /\ loaded' = models
       /\ config' = [config EXCEPT
             !.pattern.model    = IF models = <<>> THEN "None" ELSE models[1],
             !.dependency.model = IF models = <<>> THEN "None" ELSE models[2]]
    /\ sop' = NOOP
    /\ IF sargs.partitionOn # "None"
       THEN /\ blocks' = PartitionValues(sdf, sargs.partitionOn)
            /\ spc' = "blocks"
            /\ UNCHANGED <<block, rules>>
       ELSE /\ block' = BlockOf(None, sdf)
            /\ rules' = sargs.patterns
            /\ spc' = "rules"
            /\ UNCHANGED blocks
    /\ UNCHANGED <<sargs, sdf, sdf0, shist, evalVars, searchVars>>

\* lines 39-45: the next block, in the order the set is iterated in
BlockStart(b) ==
    /\ spc = "blocks"
    /\ b \in blocks
    /\ block' = BlockOf(b, TakeRows(sdf, BlockMask(sdf, sargs.partitionOn, b)))
    /\ rules' = sargs.patterns
    /\ spc' = "rules"
    /\ shist' = [shist EXCEPT !.masks = Append(@, BlockMask(sdf, sargs.partitionOn, b))]
    /\ UNCHANGED <<sargs, sdf, sdf0, config, loaded, blocks, sop, evalVars, searchVars>>

\* lines 81-100 and 113-117: the cast of a Date or Pattern rule, then the call
\* of treeSearch
RuleCall ==
    /\ spc = "rules" /\ pc = "idle" /\ rules # <<>>
    /\ LET c    == Head(rules)
           cfg  == config[block.phase]
           cast == block.phase = "pattern" /\ IsCast(c)
           t    == IF cast THEN CastRun(c, block.dfc) ELSE block.dfc
       IN  /\ block' = [block EXCEPT !.dfc = t,
                                     !.op = IF cast THEN Compose(@, CastOp(c)) ELSE @]
           /\ pc' = "call"
           /\ args' = [ df |-> t, costFn |-> c, operations |-> cfg.operations,
                        evaluations |-> cfg.depth, inflation |-> cfg.gamma,
                        editCost |-> cfg.edit, similarity |-> cfg.similarity,
                        word2vec |-> cfg.model ]
    /\ UNCHANGED <<efn, best, branch_hash, bad_op_cache, i, round, todo, hist>>
    /\ UNCHANGED <<spc, sargs, sdf, sdf0, config, loaded, blocks, rules, sop, shist, evalVars>>

\* lines 98-102 and 115-119: treeSearch has returned (transform, df)
RuleReturn ==
    /\ spc = "rules" /\ pc = "done"
    /\ block' = [block EXCEPT !.dfc = best.frame, !.op = @ \o best.op]
    /\ rules' = Tail(rules)
    /\ SearchGone
    /\ UNCHANGED <<spc, sargs, sdf, sdf0, config, loaded, blocks, sop, shist, evalVars>>

\* treeSearch has raised: nothing catches it
SolveRaises ==
    /\ spc = "rules" /\ pc = "raised"
    /\ spc' = "raised"
    /\ UNCHANGED <<sargs, sdf, sdf0, config, loaded, blocks, block, rules, sop, shist,
                   evalVars, searchVars>>

\* lines 45-47 and 55-57: patternConstraints returns (op1, dfc) and
\* dependencyConstraints is entered
PatternsDone ==
    /\ spc = "rules" /\ pc = "idle" /\ rules = <<>> /\ block.phase = "pattern"
    /\ block' = [block EXCEPT !.phase = "dependency", !.op1 = block.op, !.op = NOOP]
    /\ rules' = sargs.dependencies
    /\ UNCHANGED <<spc, sargs, sdf, sdf0, config, loaded, blocks, sop, shist,
                   evalVars, searchVars>>

\* lines 47-52: dependencyConstraints returns (op2, output_block), which is
\* written into the rows that now hold b
BlockDone ==
    /\ spc = "rules" /\ pc = "idle" /\ rules = <<>> /\ block.phase = "dependency"
    /\ sargs.partitionOn # "None"
    /\ sdf' = AssignBlock(sdf, BlockMask(sdf, sargs.partitionOn, block.b), block.dfc)
    /\ sop' = sop \o (block.op1 \o block.op)
    /\ blocks' = blocks \ {block.b}
    /\ block' = Idle
    /\ spc' = "blocks"
    /\ shist' = [shist EXCEPT !.done = Append(@, block.b)]
    /\ UNCHANGED <<sargs, sdf0, config, loaded, rules, evalVars, searchVars>>

\* lines 57-61 without a partition column
WholeDone ==
    /\ spc = "rules" /\ pc = "idle" /\ rules = <<>> /\ block.phase = "dependency"
    /\ sargs.partitionOn = "None"
    /\ sdf' = block.dfc
    /\ sop' = sop \o (block.op1 \o block.op)
    /\ block' = Idle
    /\ spc' = "done"
    /\ UNCHANGED <<sargs, sdf0, config, loaded, blocks, rules, shist, evalVars, searchVars>>

\* line 61 after the last block
SolveReturn ==
    /\ spc = "blocks" /\ blocks = {}
    /\ spc' = "done"
    /\ UNCHANGED <<sargs, sdf, sdf0, config, loaded, blocks, block, rules, sop, shist,
                   evalVars, searchVars>>

SolveNext ==
    \/ SolveLoad
    \/ \E b \in blocks : BlockStart(b)
    \/ RuleCall
    \/ RuleReturn
    \/ SolveRaises
    \/ PatternsDone
    \/ BlockDone
    \/ WholeDone
    \/ SolveReturn
    \/ TreeSearchStep

\* solve is called on tables whose column A or B may be the partition column;
\* row 3 of the first two has no value in column A
SolveTables ==
    { Table(<<"A", "B">>, << <<S(sa), S(sab)>>, <<S(sb), S(sb)>>, <<None, S(sb)>> >>),
      Table(<<"A", "B">>, << <<S(sa), S(sb)>>, <<S(sb), S(sab)>>, <<None, S(sa)>> >>),
      Table(<<"A", "B">>, << <<S(sab), S(sb)>>, <<S(sa), S(sb)>> >>) }

NoMetric   == <<>>
Semantic   == [A |-> "semantic"]

\* config['pattern'] / config['dependency']
Phase(depth, gamma, operations, similarity) ==
    [ depth |-> depth, gamma |-> gamma, edit |-> 1, operations |-> operations,
      similarity |-> similarity, w2v |-> "w2v.bin", model |-> "unset" ]

SolveConfigs ==
    { [pattern |-> Phase(1, 5, {"Swap"}, NoMetric), dependency |-> Phase(1, 5, {"Swap"}, NoMetric)],
      [pattern |-> Phase(1, 5, {"Swap"}, NoMetric), dependency |-> Phase(1, 5, {"Swap"}, Semantic)],
      [pattern |-> Phase(1, 0, {"Swap"}, Semantic), dependency |-> Phase(2, 5, AllKinds, NoMetric)] }

SolveArgs ==
    [ df : SolveTables,
      patterns : {<<>>, <<Pattern("A", {sa, sb})>>},
      dependencies : { <<DictValue("A", {sb}), FD(<<"A">>, <<"B">>)>>, <<FD(<<"A">>, <<"B">>)>> },
      partitionOn : {"None", "A", "B"} ]

NoSolveHist == [ masks |-> <<>>,     \* the row positions each block was read from
                 done  |-> <<>> ]    \* the blocks written back, in order

SolveInit ==
    \E a \in SolveArgs, cfg \in SolveConfigs :
        /\ spc = "call" /\ sargs = a /\ sdf = a.df /\ sdf0 = a.df /\ config = cfg
        /\ loaded = <<>> /\ blocks = {} /\ block = Idle /\ rules = <<>> /\ sop = Idle
        /\ shist = NoSolveHist

InitSolve == SolveInit /\ EvalIdle /\ SearchIdle
SpecSolve == InitSolve /\ [][SolveNext]_vars

\* the rows of the input table whose partition value is b, and those without
\* a partition value
InputBlock(b) == BlockMask(sdf0, sargs.partitionOn, b)
NullRows ==
    {r \in 1..NRows(sdf0) : Cell(sdf0, r, sargs.partitionOn).none}

\* C7: with a partition column, every block is read from and written back to
\* exactly the rows that hold its value in the input table (so blocks are
\* disjoint and cleaning one never changes the rows of another), and a row
\* without a partition value is the same in the returned table as in the input.
C7_BlocksIndependent ==
    /\ [][ (spc = "rules" /\ spc' = "blocks") =>
             \A r \in 1..NRows(sdf) :
                sdf'.rows[r] # sdf.rows[r] => r \in InputBlock(block.b) ]_vars
    /\ [](spc \in {"blocks", "rules", "done"} /\ sargs.partitionOn # "None" =>
             /\ \A k \in 1..Len(shist.masks) :
                   \E b \in PartitionValues(sdf0, sargs.partitionOn) :
                      shist.masks[k] = InputBlock(b)
             /\ \A r \in NullRows : sdf.rows[r] = sdf0.rows[r])

\* a block has been written back into the table
C7_Witness ==
    /\ spc = "blocks" /\ sargs.partitionOn # "None" /\ Len(shist.done) > 0
    /\ sdf # sdf0 /\ NullRows # {}

\* C8: the embedding model is loaded once when some similarity metric is
\* 'semantic' and then both searches are given that one instance; it is not
\* loaded when no metric is 'semantic'.
C8_LoadedOnceAndShared ==
    spc \notin {"idle", "call"} =>
        IF needWord2Vec(config)
        THEN /\ Len(loaded) = 1
             /\ config.pattern.model = loaded[1]
             /\ config.dependency.model = loaded[1]
             /\ pc \in {"call", "loop", "cand", "done", "raised"} => args.word2vec = loaded[1]
        ELSE Len(loaded) = 0

\* a search runs with a loaded model
C8_Witness ==
    /\ spc = "rules" /\ needWord2Vec(config) /\ pc = "cand"
    /\ args.word2vec \in Range(loaded)

====
